---- MODULE Spec2Model ----
(***************************************************************************)
(* The negotiation simulator: the round driver run_negotiation_test (in    *)
(* interview_negotiation_template.py and again in main.py), the reference  *)
(* buyers YourBuyerAgent and ExampleSimpleAgent, the reference sellers and  *)
(* the scenario generator.                                                 *)
(*                                                                         *)
(* Prices are Python ints.  Every price formula of the program multiplies  *)
(* an int by a float literal and truncates or compares the product, so the *)
(* first section models IEEE-754 binary64 multiplication, addition and      *)
(* comparison on the values the program forms, in integer arithmetic.      *)
(***************************************************************************)
EXTENDS Integers, Sequences, FiniteSets, TLC

----------------------------------------------------------------------------
(* Python float arithmetic                                                 *)

Abs(n) == IF n < 0 THEN -n ELSE n

Max(a, b) == IF a >= b THEN a ELSE b

Min(a, b) == IF a <= b THEN a ELSE b

Pow2(n) == IF n <= 0 THEN 1 ELSE 2 ^ n

\* floor(log2 n) for 1 <= n < 2^30: the binade of n.
Binade(n) == IF n < 2 THEN 0 ELSE CHOOSE k \in 1..29 : 2 ^ k <= n /\ n < 2 * 2 ^ k

\* a / b truncated toward zero, as Python's int() truncates.
TruncDiv(a, b) == IF a >= 0 THEN a \div b ELSE -((-a) \div b)

(* A float literal c is the binary64 number M / 2^s (M its 53-bit          *)
(* significand).  With c written as the decimal n/d, r = M*d - n*2^s is the *)
(* literal's representation error: c = n/d + r/(d * 2^s).                  *)
FloatLit(n, d, r, s) == [n |-> n, d |-> d, r |-> r, s |-> s]

F1_7  == FloatLit(17, 10, -2, 52)     \* 1.7   0x1.b333333333333p+0
F1_5  == FloatLit(3, 2, 0, 52)        \* 1.5   0x1.8000000000000p+0
F1_35 == FloatLit(135, 100, 40, 52)   \* 1.35  0x1.599999999999ap+0
F1_12 == FloatLit(112, 100, 48, 52)   \* 1.12  0x1.1eb851eb851ecp+0
F1_08 == FloatLit(108, 100, 32, 52)   \* 1.08  0x1.147ae147ae148p+0
F1_06 == FloatLit(106, 100, 24, 52)   \* 1.06  0x1.0f5c28f5c28f6p+0
F1_04 == FloatLit(104, 100, 16, 52)   \* 1.04  0x1.0a3d70a3d70a4p+0
F1_1  == FloatLit(11, 10, 4, 52)      \* 1.1   0x1.199999999999ap+0
F1_05 == FloatLit(105, 100, 20, 52)   \* 1.05  0x1.0cccccccccccdp+0
F1_15 == FloatLit(115, 100, -40, 52)  \* 1.15  0x1.2666666666666p+0
F1_2  == FloatLit(12, 10, -2, 52)     \* 1.2   0x1.3333333333333p+0
F1_0  == FloatLit(1, 1, 0, 52)        \* 1.0
F0_95 == FloatLit(95, 100, -40, 53)   \* 0.95  0x1.e666666666666p-1
F0_9  == FloatLit(9, 10, 2, 53)       \* 0.9   0x1.ccccccccccccdp-1
F0_85 == FloatLit(85, 100, -20, 53)   \* 0.85  0x1.b333333333333p-1
F0_82 == FloatLit(82, 100, -44, 53)   \* 0.82  0x1.a3d70a3d70a3dp-1
F0_8  == FloatLit(8, 10, 4, 53)       \* 0.8   0x1.999999999999ap-1
F0_75 == FloatLit(75, 100, 0, 53)     \* 0.75  0x1.8000000000000p-1
F0_73 == FloatLit(73, 100, -16, 53)   \* 0.65 + 0.8 * 0.1 = 0x1.75c28f5c28f5cp-1
F0_72 == FloatLit(72, 100, -24, 53)   \* 0.65 + 0.7 * 0.1 = 0x1.70a3d70a3d70ap-1
F0_71 == FloatLit(71, 100, -32, 53)   \* 0.65 + 0.6 * 0.1 = 0x1.6b851eb851eb8p-1
F0_7  == FloatLit(7, 10, -4, 53)      \* 0.7   0x1.6666666666666p-1
F0_6  == FloatLit(6, 10, -2, 53)      \* 0.6   0x1.3333333333333p-1
F0_4  == FloatLit(4, 10, 4, 54)       \* 0.4   0x1.999999999999ap-2
F0_25 == FloatLit(25, 100, 0, 54)     \* 0.25  0x1.0000000000000p-2
F0_15 == FloatLit(15, 100, -20, 55)   \* 0.15  0x1.3333333333333p-3
F0_05 == FloatLit(5, 100, 40, 57)     \* 0.05  0x1.999999999999ap-5

(* A float value v the program forms is kept as what int() and comparisons *)
(* with ints can see of it: lo = floor(v), ex = (v is an integer), and,    *)
(* when v is an integer N moved off N by rounding, the side dir (+1 above, *)
(* -1 below) and the exponent e of the distance 2^e.                       *)
FloatVal(lo, ex, dir, e) == [lo |-> lo, ex |-> ex, dir |-> dir, e |-> e]

(* x * c for an int x >= 0, rounded to nearest-even.  The exact product is *)
(* x*n/d + x*r/(d*2^s).  When x*n/d is not an integer the product lies     *)
(* strictly between two integers, further from both than any rounding      *)
(* moves it.  When x*n/d is an integer N (itself a float), the product     *)
(* rounds back to N iff the error x*|r|/(d*2^s) is at most half the float  *)
(* spacing on that side of N: 2^(k-52) above N and below N, halved below N *)
(* when N = 2^k; a tie goes to N, whose significand is even.               *)
FMulPos(x, c) ==
    LET a  == x * c.n
        N  == a \div c.d
        k  == Binade(N)
        ar == Abs(c.r)
        pw == c.d * Pow2(c.s - 52 + k)
    IN  IF a % c.d # 0 THEN FloatVal(N, FALSE, 0, 0)
        ELSE IF c.r = 0 \/ x = 0 THEN FloatVal(N, TRUE, 0, 0)
        ELSE IF c.r > 0
             THEN IF 2 * x * ar <= pw THEN FloatVal(N, TRUE, 0, 0)
                  ELSE FloatVal(N, FALSE, 1, k - 52)
        ELSE IF N = Pow2(k)
             THEN IF 4 * x * ar <= pw THEN FloatVal(N, TRUE, 0, 0)
                  ELSE FloatVal(N - 1, FALSE, -1, k - 53)
        ELSE IF 2 * x * ar <= pw THEN FloatVal(N, TRUE, 0, 0)
             ELSE FloatVal(N - 1, FALSE, -1, k - 52)

FNeg(v) == IF v.ex THEN FloatVal(-v.lo, TRUE, 0, 0)
           ELSE FloatVal(-v.lo - 1, FALSE, -v.dir, v.e)

\* x * c for any int x: rounding is symmetric in the sign.
FMul(x, c) == IF x >= 0 THEN FMulPos(x, c) ELSE FNeg(FMulPos(-x, c))

\* int(v): truncation toward zero.
ToInt(v) == IF v.ex \/ v.lo >= 0 THEN v.lo ELSE v.lo + 1

\* y >= v, y > v, y <= v for an int y and a float v.
IntGE(y, v) == y > v.lo \/ (y = v.lo /\ v.ex)

IntGT(y, v) == y > v.lo

IntLE(y, v) == y <= v.lo

(* a + v for an int a and a product v.  A product that is not near an      *)
(* integer stays between the same two integers.  A product N +- 2^e gives  *)
(* the exact sum B = a + N iff 2^e is at most half the float spacing on    *)
(* that side of B.                                                         *)
FAdd(a, v) ==
    IF v.ex THEN FloatVal(a + v.lo, TRUE, 0, 0)
    ELSE IF v.dir = 0 THEN FloatVal(a + v.lo, FALSE, 0, 0)
    ELSE LET N    == IF v.dir < 0 THEN v.lo + 1 ELSE v.lo
             B    == a + N
             sB   == IF B > 0 THEN 1 ELSE -1
             kB   == Binade(Abs(B))
             half == IF v.dir = sB \/ Abs(B) > Pow2(kB) THEN kB - 53 ELSE kB - 54
         IN  IF B = 0 THEN FloatVal(IF v.dir > 0 THEN 0 ELSE -1, FALSE, v.dir, v.e)
             ELSE IF v.e <= half THEN FloatVal(B, TRUE, 0, 0)
             ELSE FloatVal(IF v.dir > 0 THEN B ELSE B - 1, FALSE, v.dir, v.e)

(* int((x * c1) * c2).  When x*c1 is an integer the second product is one  *)
(* FMul.  Otherwise x*n1*n2/(d1*d2) is no integer either for the literals  *)
(* used (n2 is coprime to d1*d2), and two roundings cannot reach one; its   *)
(* truncation fl is computed in two steps to stay within machine ints.     *)
FMul2Int(x, c1, c2) ==
    LET t  == FMul(x, c1)
        a  == Abs(x) * c1.n
        fl == ((a \div c1.d) * c2.n + ((a % c1.d) * c2.n) \div c1.d) \div c2.d
    IN  IF t.ex THEN ToInt(FMul(t.lo, c2))
        ELSE IF x >= 0 THEN fl ELSE -fl

(* (a / b) <= c for ints a, b with b > 0 and a literal c = n/d: division   *)
(* is correctly rounded and monotone, and a/b = n/d rounds to c itself.    *)
FDivLE(a, b, c) == a * c.d <= c.n * b

----------------------------------------------------------------------------
(* Data structures and configuration                                       *)

\* environment.py: MAX_ROUNDS = int(os.getenv("MAX_ROUNDS", "10")); the values
\* the environment may configure here are the default and a smaller one.
DEFAULT_MAX_ROUNDS == 10

ConfiguredRounds == {DEFAULT_MAX_ROUNDS, 3}

\* The template's driver loops over range(10).
TEMPLATE_ROUNDS == 10

DealStatus == {"ONGOING", "ACCEPTED", "REJECTED", "TIMEOUT"}

(* A value that may be None (final_price, result) is None or Some(v).      *)
None == <<>>

Some(v) == <<v>>

ValueOf(opt) == opt[1]

\* A local variable that is not bound yet; a status is a string throughout.
Unbound == <<>>

NoStatus == "unbound"

\* seller_price and buyer_offer before their first assignment; the driver
\* does not read them then.
NoPrice == -1

Product(quality_grade, origin, quantity, base_market_price) ==
    [quality_grade |-> quality_grade, origin |-> origin,
     quantity |-> quantity, base_market_price |-> base_market_price]

NegotiationContext(product, your_budget) ==
    [product |-> product, your_budget |-> your_budget, current_round |-> 0,
     seller_offers |-> <<>>, your_offers |-> <<>>, messages |-> <<>>]

(* A transcript entry is [role, message]; the text of a message is kept  *)
(* as the template it was formatted from and the price it quotes.          *)
Last(seq) == seq[Len(seq)]

----------------------------------------------------------------------------
(* Sellers                                                                 *)

(* MockSellerAgent defines __init__ and keeps min_price.  BaseSellerAgent   *)
(* names its initialiser _init_, which Python never calls: its subclasses  *)
(* take no constructor argument, and StandardSeller(seller_min) raises     *)
(* TypeError.                                                              *)
SellerClass(driver) == IF driver = "template" THEN "MockSellerAgent" ELSE "StandardSeller"

ConstructSeller(class, min_price) ==
    IF class = "MockSellerAgent"
    THEN [raised |-> FALSE, class |-> class, min_price |-> min_price]
    ELSE [raised |-> TRUE, class |-> class, min_price |-> None]

Mock_get_opening_price(product) ==
    LET price == ToInt(FMul(product.base_market_price, F1_5))
    IN  [price |-> price, message |-> [text |-> "asking", price |-> price]]

\* Faulty variant: the counter-price is not floored at the minimum price.
Mock_respond_to_buyer_Unfloored(self, buyer_offer, round_num) ==
    IF IntGE(buyer_offer, FMul(self.min_price, F1_1))
    THEN [price |-> buyer_offer, accepted |-> TRUE,
          message |-> [text |-> "deal", price |-> buyer_offer]]
    ELSE IF round_num >= 8
    THEN LET counter == ToInt(FMul(buyer_offer, F1_05))
         IN  [price |-> counter, accepted |-> FALSE,
              message |-> [text |-> "final offer", price |-> counter]]
    ELSE LET counter == ToInt(FMul(buyer_offer, F1_15))
         IN  [price |-> counter, accepted |-> FALSE,
              message |-> [text |-> "come down", price |-> counter]]

Mock_respond_to_buyer(self, buyer_offer, round_num) ==
    IF IntGE(buyer_offer, FMul(self.min_price, F1_1))
    THEN [price |-> buyer_offer, accepted |-> TRUE,
          message |-> [text |-> "deal", price |-> buyer_offer]]
    ELSE IF round_num >= 8
    THEN LET counter == Max(self.min_price, ToInt(FMul(buyer_offer, F1_05)))
         IN  [price |-> counter, accepted |-> FALSE,
              message |-> [text |-> "final offer", price |-> counter]]
    ELSE LET counter == Max(self.min_price, ToInt(FMul(buyer_offer, F1_15)))
         IN  [price |-> counter, accepted |-> FALSE,
              message |-> [text |-> "come down", price |-> counter]]

Standard_get_opening_price(product) ==
    LET price == ToInt(FMul(product.base_market_price, F1_5))
    IN  [price |-> price, message |-> [text |-> "asking", price |-> price]]

Standard_respond_to_buyer(self, buyer_offer, round_num) ==
    IF IntGE(buyer_offer, FMul(self.min_price, F1_1))
    THEN [price |-> buyer_offer, accepted |-> TRUE,
          message |-> [text |-> "deal", price |-> buyer_offer]]
    ELSE IF round_num >= 8
    THEN LET counter == Max(self.min_price, ToInt(FMul(buyer_offer, F1_05)))
         IN  [price |-> counter, accepted |-> FALSE,
              message |-> [text |-> "final offer", price |-> counter]]
    ELSE LET counter == Max(self.min_price, ToInt(FMul(buyer_offer, F1_15)))
         IN  [price |-> counter, accepted |-> FALSE,
              message |-> [text |-> "come down", price |-> counter]]

Tough_get_opening_price(product) ==
    LET price == ToInt(FMul(product.base_market_price, F1_7))
    IN  [price |-> price, message |-> [text |-> "opening at", price |-> price]]

Tough_respond_to_buyer(self, buyer_offer, round_num) ==
    IF buyer_offer >= ToInt(FMul(self.min_price, F1_12))
    THEN [price |-> buyer_offer, accepted |-> TRUE,
          message |-> [text |-> "fine", price |-> buyer_offer]]
    ELSE LET step    == IF round_num < 7 THEN F1_12 ELSE F1_06
             counter == Max(self.min_price, ToInt(FMul(buyer_offer, step)))
         IN  [price |-> counter, accepted |-> FALSE,
              message |-> [text |-> IF round_num < 7 THEN "not close" ELSE "last stretch",
                           price |-> counter]]

Friendly_get_opening_price(product) ==
    LET price == ToInt(FMul(product.base_market_price, F1_35))
    IN  [price |-> price, message |-> [text |-> "fair price", price |-> price]]

Friendly_respond_to_buyer(self, buyer_offer, round_num) ==
    IF buyer_offer >= ToInt(FMul(self.min_price, F1_08))
    THEN [price |-> buyer_offer, accepted |-> TRUE,
          message |-> [text |-> "happy to agree", price |-> buyer_offer]]
    ELSE LET step    == IF round_num < 6 THEN F1_1 ELSE F1_04
             counter == Max(self.min_price, ToInt(FMul(buyer_offer, step)))
         IN  [price |-> counter, accepted |-> FALSE,
              message |-> [text |-> "meet you", price |-> counter]]

get_opening_price(self, product) ==
    IF self.class = "MockSellerAgent" THEN Mock_get_opening_price(product)
    ELSE Standard_get_opening_price(product)

respond_to_buyer(self, buyer_offer, round_num) ==
    IF self.class = "MockSellerAgent" THEN Mock_respond_to_buyer(self, buyer_offer, round_num)
    ELSE Standard_respond_to_buyer(self, buyer_offer, round_num)

----------------------------------------------------------------------------
(* YourBuyerAgent                                                          *)

PremiumOrigins == {"Ratnagiri", "Alphonso", "Devgad"}

get_quality_multiplier(quality_grade) ==
    CASE quality_grade = "Export" -> F1_0
      [] quality_grade = "A"      -> F0_8
      [] quality_grade = "B"      -> F0_6
      [] OTHER                    -> F0_7

\* any(premium in origin ...) is a substring test; an origin drawn here
\* contains a premium name only by being one.
get_origin_premium(origin) == IF origin \in PremiumOrigins THEN F1_1 ELSE F0_95

\* The float 0.65 + quality_multiplier * 0.1.
OpeningRatio(quality_multiplier) ==
    CASE quality_multiplier = F1_0 -> F0_75
      [] quality_multiplier = F0_8 -> F0_73
      [] quality_multiplier = F0_6 -> F0_71
      [] OTHER                     -> F0_72

Your_generate_opening_offer(context) ==
    LET quality_multiplier == get_quality_multiplier(context.product.quality_grade)
        origin_premium     == get_origin_premium(context.product.origin)
        opening_price      == FMul2Int(context.product.base_market_price,
                                       OpeningRatio(quality_multiplier), origin_premium)
        offer              == Min(opening_price, ToInt(FMul(context.your_budget, F0_85)))
    IN  [raised |-> FALSE, offer |-> offer,
         message |-> [text |-> "opening analysis", price |-> offer]]

analyze_negotiation_phase(context) ==
    LET rounds == context.current_round
    IN  IF rounds <= 2 THEN "opening"
        ELSE IF rounds <= 5 THEN "middle"
        ELSE IF rounds <= 8 THEN "closing"
        ELSE "final"

acceptance_thresholds(phase) ==
    CASE phase = "opening" -> F0_75
      [] phase = "middle"  -> F0_85
      [] phase = "closing" -> F0_95
      [] phase = "final"   -> F1_05
      [] OTHER             -> F0_85

\* Faulty variant: the over-budget test is left out.
should_accept_offer_IgnoringBudget(seller_price, context, phase) ==
    FDivLE(seller_price, context.product.base_market_price, acceptance_thresholds(phase))

should_accept_offer(seller_price, context, phase) ==
    IF seller_price > context.your_budget THEN FALSE
    ELSE FDivLE(seller_price, context.product.base_market_price,
                acceptance_thresholds(phase))

convergence_rates(phase) ==
    CASE phase = "opening" -> F0_15
      [] phase = "middle"  -> F0_25
      [] phase = "closing" -> F0_4
      [] phase = "final"   -> F0_6
      [] OTHER             -> F0_25

\* Faulty variant: the minimum increment is left out.
calculate_counter_offer_NoIncrement(seller_price, context, phase) ==
    LET last_offer    == IF context.your_offers # <<>> THEN Last(context.your_offers) ELSE 0
        counter0      == ToInt(FAdd(last_offer,
                                    FMul(seller_price - last_offer, convergence_rates(phase))))
        market_price  == context.product.base_market_price
    IN  IF IntGT(seller_price, FMul(market_price, F1_2))
        THEN ToInt(FMul(counter0, F0_9)) ELSE counter0

calculate_counter_offer(seller_price, context, phase) ==
    LET last_offer    == IF context.your_offers # <<>> THEN Last(context.your_offers) ELSE 0
        counter0      == ToInt(FAdd(last_offer,
                                    FMul(seller_price - last_offer, convergence_rates(phase))))
        market_price  == context.product.base_market_price
        counter1      == IF IntGT(seller_price, FMul(market_price, F1_2))
                         THEN ToInt(FMul(counter0, F0_9)) ELSE counter0
        min_increment == Max(ToInt(FMul(last_offer, F0_05)), 5000)
    IN  Max(counter1, last_offer + min_increment)

\* The middle-phase message computes (seller_price - counter_offer) / seller_price.
generate_counter_message_raises(seller_price, phase) ==
    phase = "middle" /\ seller_price = 0

\* choice is the index random.choice draws among the three acceptance messages.
generate_acceptance_message(final_price, choice) ==
    [text |-> <<"accept", choice>>, price |-> final_price]

\* Faulty variant: the counter-offer is not capped by the budget.
Your_respond_to_seller_offer_Unclamped(context, seller_price, choice) ==
    LET negotiation_phase == analyze_negotiation_phase(context)
        counter_offer     == calculate_counter_offer(seller_price, context, negotiation_phase)
    IN  IF context.product.base_market_price = 0 \/ context.your_budget = 0
        THEN [raised |-> TRUE]
        ELSE IF should_accept_offer(seller_price, context, negotiation_phase)
        THEN [raised |-> FALSE, status |-> "ACCEPTED", offer |-> seller_price,
              message |-> generate_acceptance_message(seller_price, choice)]
        ELSE IF generate_counter_message_raises(seller_price, negotiation_phase)
        THEN [raised |-> TRUE]
        ELSE [raised |-> FALSE, status |-> "ONGOING", offer |-> counter_offer,
              message |-> [text |-> <<"counter", negotiation_phase>>, price |-> counter_offer]]

\* Faulty variant: the accepted price depends on the drawn message.
Your_respond_to_seller_offer_ChoicePriced(context, seller_price, choice) ==
    LET negotiation_phase == analyze_negotiation_phase(context)
        counter_offer     == Min(calculate_counter_offer(seller_price, context, negotiation_phase),
                                 context.your_budget)
    IN  IF context.product.base_market_price = 0 \/ context.your_budget = 0
        THEN [raised |-> TRUE]
        ELSE IF should_accept_offer(seller_price, context, negotiation_phase)
        THEN [raised |-> FALSE, status |-> "ACCEPTED", offer |-> seller_price - choice,
              message |-> generate_acceptance_message(seller_price, choice)]
        ELSE IF generate_counter_message_raises(seller_price, negotiation_phase)
        THEN [raised |-> TRUE]
        ELSE [raised |-> FALSE, status |-> "ONGOING", offer |-> counter_offer,
              message |-> [text |-> <<"counter", negotiation_phase>>, price |-> counter_offer]]

Your_respond_to_seller_offer(context, seller_price, choice) ==
    LET negotiation_phase == analyze_negotiation_phase(context)
        counter_offer     == Min(calculate_counter_offer(seller_price, context, negotiation_phase),
                                 context.your_budget)
    IN  \* seller_price / base_market_price, then seller_price / your_budget
        IF context.product.base_market_price = 0 \/ context.your_budget = 0
        THEN [raised |-> TRUE]
        ELSE IF should_accept_offer(seller_price, context, negotiation_phase)
        THEN [raised |-> FALSE, status |-> "ACCEPTED", offer |-> seller_price,
              message |-> generate_acceptance_message(seller_price, choice)]
        ELSE IF generate_counter_message_raises(seller_price, negotiation_phase)
        THEN [raised |-> TRUE]
        ELSE [raised |-> FALSE, status |-> "ONGOING", offer |-> counter_offer,
              message |-> [text |-> <<"counter", negotiation_phase>>, price |-> counter_offer]]

----------------------------------------------------------------------------
(* ExampleSimpleAgent                                                      *)

Example_generate_opening_offer(context) ==
    LET opening == Min(ToInt(FMul(context.product.base_market_price, F0_6)),
                       context.your_budget)
    IN  [raised |-> FALSE, offer |-> opening,
         message |-> [text |-> "interested", price |-> opening]]

Example_respond_to_seller_offer(context, seller_price) ==
    LET last_offer == IF context.your_offers # <<>> THEN Last(context.your_offers) ELSE 0
        counter    == Min(ToInt(FMul(last_offer, F1_1)), context.your_budget)
        close      == Min(seller_price - 1000, context.your_budget)
    IN  IF seller_price <= context.your_budget
           /\ IntLE(seller_price, FMul(context.product.base_market_price, F0_85))
        THEN [raised |-> FALSE, status |-> "ACCEPTED", offer |-> seller_price,
              message |-> [text |-> "works for me", price |-> seller_price]]
        ELSE IF IntGE(counter, FMul(seller_price, F0_95))
        THEN [raised |-> FALSE, status |-> "ONGOING", offer |-> close,
              message |-> [text |-> "bit steep", price |-> close]]
        ELSE [raised |-> FALSE, status |-> "ONGOING", offer |-> counter,
              message |-> [text |-> "pushing my budget", price |-> counter]]

----------------------------------------------------------------------------
(* Any other BaseBuyerAgent: its offers and statuses are inputs            *)

Generic_offers(context) == {0, context.your_budget, context.your_budget + 1}

----------------------------------------------------------------------------
(* Buyer dispatch                                                          *)

BuyerClasses == {"YourBuyerAgent", "ExampleSimpleAgent", "BaseBuyerAgent"}

ReferenceBuyers == {"YourBuyerAgent", "ExampleSimpleAgent"}

\* The returns generate_opening_offer can make.
generate_opening_offer(buyer_agent, context) ==
    CASE buyer_agent = "YourBuyerAgent"     -> {Your_generate_opening_offer(context)}
      [] buyer_agent = "ExampleSimpleAgent" -> {Example_generate_opening_offer(context)}
      [] OTHER -> {[raised |-> FALSE, offer |-> o, message |-> [text |-> "generic", price |-> o]] :
                      o \in Generic_offers(context)}

\* The returns respond_to_seller_offer can make.
respond_to_seller_offer(buyer_agent, context, seller_price) ==
    CASE buyer_agent = "YourBuyerAgent" ->
             {Your_respond_to_seller_offer(context, seller_price, choice) : choice \in 1..3}
      [] buyer_agent = "ExampleSimpleAgent" ->
             {Example_respond_to_seller_offer(context, seller_price)}
      [] OTHER ->
             {[raised |-> FALSE, status |-> st, offer |-> o,
               message |-> [text |-> "generic", price |-> o]] :
                 st \in DealStatus, o \in Generic_offers(context)}

----------------------------------------------------------------------------
(* The scenario generator                                                  *)

scenario_triplets(market_price) ==
    [easy   |-> [buyer_budget |-> ToInt(FMul(market_price, F1_2)),
                 seller_min   |-> ToInt(FMul(market_price, F0_8))],
     medium |-> [buyer_budget |-> ToInt(FMul(market_price, F1_0)),
                 seller_min   |-> ToInt(FMul(market_price, F0_85))],
     hard   |-> [buyer_budget |-> ToInt(FMul(market_price, F0_9)),
                 seller_min   |-> ToInt(FMul(market_price, F0_82))]]

\* test_your_agent derives a scenario's budget and seller minimum inline.
Template_scenario(base_market_price, scenario) ==
    IF scenario = "easy"
    THEN [buyer_budget |-> ToInt(FMul(base_market_price, F1_2)),
          seller_min   |-> ToInt(FMul(base_market_price, F0_8))]
    ELSE IF scenario = "medium"
    THEN [buyer_budget |-> ToInt(FMul(base_market_price, F1_0)),
          seller_min   |-> ToInt(FMul(base_market_price, F0_85))]
    ELSE [buyer_budget |-> ToInt(FMul(base_market_price, F0_9)),
          seller_min   |-> ToInt(FMul(base_market_price, F0_82))]

----------------------------------------------------------------------------
(* The driver run_negotiation_test                                         *)

VARIABLES
    MAX_ROUNDS,    \* environment.MAX_ROUNDS, read from the environment at import
    driver,        \* "template" or "main": which file's run_negotiation_test runs
    buyer_agent,   \* the class of the buyer_agent argument
    product,       \* the product argument
    buyer_budget,  \* the buyer_budget argument
    seller_min,    \* the seller_min argument
    seller,        \* the seller object, Unbound before its construction
    context,       \* the NegotiationContext
    round_num,     \* the loop variable
    seller_price,  \* the seller's last returned price
    seller_msg,    \* the seller's last returned message
    buyer_offer,   \* the buyer's last returned offer
    status,        \* the buyer's last returned status
    deal_made,
    final_price,
    result,        \* the returned dict, Unbound until the return
    calls,         \* the capability calls made so far, each with its arguments
    scenario_log,  \* the scenario_triplets calls made so far, each with its return
    agent_fields,  \* the fields of the buyer_agent instance: name and personality
    other,         \* a second negotiation with the same buyer_agent, suspended; None if there is none
    pc             \* "start", "round", "buyer", "seller", "result", "returned", "raised"

vars == <<MAX_ROUNDS, driver, buyer_agent, product, buyer_budget, seller_min, seller, context,
          round_num, seller_price, seller_msg, buyer_offer, status, deal_made,
          final_price, result, calls, scenario_log, agent_fields, other, pc>>

args == <<MAX_ROUNDS, driver, buyer_agent, product, buyer_budget, seller_min>>

\* for round_num in range(MAX_ROUNDS) in main.py, range(10) in the template.
RoundLimit(d, max_rounds) == IF d = "main" THEN max_rounds ELSE TEMPLATE_ROUNDS

\* BaseBuyerAgent.__init__ sets name and personality; the personality dict
\* is kept as its personality_type.
AgentInstance(b) ==
    [name |-> IF b = "BaseBuyerAgent" THEN "Buyer" ELSE "StrategicAnalyst",
     personality |-> CASE b = "YourBuyerAgent"     -> "strategic_analytical"
                       [] b = "ExampleSimpleAgent" -> "cautious"
                       [] OTHER                    -> "custom"]

\* The state in which run_negotiation_test is called with the given arguments.
NegotiationStart(max_rounds, d, b, p, budget, smin) ==
    /\ MAX_ROUNDS = max_rounds
    /\ driver = d
    /\ buyer_agent = b
    /\ product = p
    /\ buyer_budget = budget
    /\ seller_min = smin
    /\ seller = Unbound
    /\ context = NegotiationContext(p, budget)
    /\ round_num = 0
    /\ seller_price = NoPrice
    /\ seller_msg = Unbound
    /\ buyer_offer = NoPrice
    /\ status = NoStatus
    /\ deal_made = FALSE
    /\ final_price = None
    /\ result = Unbound
    /\ calls = <<>>
    /\ scenario_log = <<>>
    /\ agent_fields = AgentInstance(b)
    /\ pc = "start"

\* A call of run_negotiation_test with no other negotiation beside it.
Call(max_rounds, d, b, p, budget, smin) ==
    /\ NegotiationStart(max_rounds, d, b, p, budget, smin)
    /\ other = None

\* The offer in a buyer's return r, None if the call raised.
ReturnedOffer(r) == IF r.raised THEN None ELSE Some(r.offer)

\* seller = ...Seller(seller_min) raises.
SellerConstructorRaises ==
    /\ pc = "start"
    /\ ConstructSeller(SellerClass(driver), seller_min).raised
    /\ pc' = "raised"
    /\ UNCHANGED <<args, scenario_log, agent_fields, other, seller, context, round_num, seller_price, seller_msg,
                   buyer_offer, status, deal_made, final_price, result, calls>>

\* The seller is constructed and opens; the loop is entered or skipped.
SellerOpens ==
    /\ pc = "start"
    /\ LET s == ConstructSeller(SellerClass(driver), seller_min)
           o == get_opening_price(s, product)
       IN  /\ ~s.raised
           /\ seller' = s
           /\ seller_price' = o.price
           /\ seller_msg' = o.message
           /\ context' = [context EXCEPT
                            !.seller_offers = Append(@, o.price),
                            !.messages = Append(@, [role |-> "seller", message |-> o.message])]
    /\ calls' = Append(calls, [method |-> "get_opening_price", context |-> context])
    /\ pc' = IF RoundLimit(driver, MAX_ROUNDS) > 0 THEN "round" ELSE "result"
    /\ UNCHANGED <<args, scenario_log, agent_fields, other, round_num, buyer_offer, status, deal_made, final_price, result>>

\* Faulty variant: the round's start also lowers the budget held in the context.
StartRound_LowersBudget ==
    /\ pc = "round"
    /\ context' = [context EXCEPT !.current_round = round_num + 1,
                                  !.your_budget = Max(0, @ - 1)]
    /\ pc' = "buyer"
    /\ UNCHANGED <<args, scenario_log, agent_fields, other, seller, round_num, seller_price, seller_msg, buyer_offer,
                   status, deal_made, final_price, result, calls>>

\* Faulty variant: the round counter is the 0-based loop variable.
StartRound_ZeroBased ==
    /\ pc = "round"
    /\ context' = [context EXCEPT !.current_round = round_num]
    /\ pc' = "buyer"
    /\ UNCHANGED <<args, scenario_log, agent_fields, other, seller, round_num, seller_price, seller_msg, buyer_offer,
                   status, deal_made, final_price, result, calls>>

\* context.current_round = round_num + 1
StartRound ==
    /\ pc = "round"
    /\ context' = [context EXCEPT !.current_round = round_num + 1]
    /\ pc' = "buyer"
    /\ UNCHANGED <<args, scenario_log, agent_fields, other, seller, round_num, seller_price, seller_msg, buyer_offer,
                   status, deal_made, final_price, result, calls>>

(* Faulty variants of the buyer branch: the deal closes at the buyer's     *)
(* returned number ("buyer_price"), ACCEPTED does not leave the loop       *)
(* ("no_break"), or the returned offer is clamped into 0..your_budget as   *)
(* environment.clamp_price would ("clamp").                                *)
BuyerReturnedVariant(r, st, fault) ==
    IF r.raised
    THEN /\ pc' = "raised"
         /\ UNCHANGED <<context, buyer_offer, status, deal_made, final_price>>
    ELSE /\ context' = [context EXCEPT
                          !.your_offers = Append(@, IF fault = "clamp"
                                                    THEN Min(Max(0, r.offer), context.your_budget)
                                                    ELSE r.offer),
                          !.messages = Append(@, [role |-> "buyer", message |-> r.message])]
         /\ buyer_offer' = Last(context'.your_offers)
         /\ status' = st
         /\ IF st = "ACCEPTED"
            THEN /\ deal_made' = TRUE
                 /\ final_price' = Some(IF fault = "buyer_price" THEN r.offer ELSE seller_price)
                 /\ pc' = IF fault = "no_break" THEN "seller" ELSE "result"
            ELSE /\ pc' = "seller"
                 /\ UNCHANGED <<deal_made, final_price>>

BuyerReturned_ClosesAtBuyerPrice(r, st) == BuyerReturnedVariant(r, st, "buyer_price")

BuyerReturned_NoBreak(r, st) == BuyerReturnedVariant(r, st, "no_break")

BuyerReturned_Clamped(r, st) == BuyerReturnedVariant(r, st, "clamp")

\* Faulty variant: the buyer's history keeps the last offer only.
BuyerReturned_KeepsLastOnly(r, st) ==
    IF r.raised
    THEN /\ pc' = "raised"
         /\ UNCHANGED <<context, buyer_offer, status, deal_made, final_price>>
    ELSE /\ context' = [context EXCEPT
                          !.your_offers = <<r.offer>>,
                          !.messages = Append(@, [role |-> "buyer", message |-> r.message])]
         /\ buyer_offer' = r.offer
         /\ status' = st
         /\ IF st = "ACCEPTED"
            THEN /\ deal_made' = TRUE
                 /\ final_price' = Some(seller_price)
                 /\ pc' = "result"
            ELSE /\ pc' = "seller"
                 /\ UNCHANGED <<deal_made, final_price>>

\* What the driver does with the buyer's return r and the status st.
BuyerReturned(r, st) ==
    IF r.raised
    THEN /\ pc' = "raised"
         /\ UNCHANGED <<context, buyer_offer, status, deal_made, final_price>>
    ELSE /\ context' = [context EXCEPT
                          !.your_offers = Append(@, r.offer),
                          !.messages = Append(@, [role |-> "buyer", message |-> r.message])]
         /\ buyer_offer' = r.offer
         /\ status' = st
         /\ IF st = "ACCEPTED"
            THEN /\ deal_made' = TRUE
                 /\ final_price' = Some(seller_price)
                 /\ pc' = "result"
            ELSE /\ pc' = "seller"
                 /\ UNCHANGED <<deal_made, final_price>>

\* Round 1: the buyer opens.
BuyerOpens ==
    /\ pc = "buyer"
    /\ round_num = 0
    /\ \E r \in generate_opening_offer(buyer_agent, context) :
           /\ BuyerReturned(r, "ONGOING")
           /\ calls' = Append(calls, [method |-> "generate_opening_offer", context |-> context,
                                       offer |-> ReturnedOffer(r)])
    /\ UNCHANGED <<args, scenario_log, agent_fields, other, seller, round_num, seller_price, seller_msg, result>>

\* Faulty variant: the buyer is handed the seller's opening price in every round.
BuyerResponds_OpeningPrice ==
    /\ pc = "buyer"
    /\ round_num > 0
    /\ \E r \in respond_to_seller_offer(buyer_agent, context, context.seller_offers[1]) :
           /\ BuyerReturned(r, IF r.raised THEN NoStatus ELSE r.status)
           /\ calls' = Append(calls, [method |-> "respond_to_seller_offer", context |-> context,
                                       seller_price |-> context.seller_offers[1], offer |-> ReturnedOffer(r)])
    /\ UNCHANGED <<args, scenario_log, agent_fields, other, seller, round_num, seller_price, seller_msg, result>>

(* Faulty variant: the agent keeps the seller's price in a field of its    *)
(* instance (self.seller_price) and responds to the price kept there.       *)
BuyerResponds_PriceFromInstance ==
    /\ pc = "buyer"
    /\ round_num > 0
    /\ LET kept == IF "seller_price" \in DOMAIN agent_fields
                   THEN agent_fields.seller_price ELSE seller_price
       IN  \E r \in respond_to_seller_offer(buyer_agent, context, kept) :
               /\ BuyerReturned(r, IF r.raised THEN NoStatus ELSE r.status)
               /\ calls' = Append(calls, [method |-> "respond_to_seller_offer", context |-> context,
                                           seller_price |-> seller_price, offer |-> ReturnedOffer(r)])
    /\ agent_fields' = [name |-> agent_fields.name, personality |-> agent_fields.personality,
                        seller_price |-> seller_price]
    /\ UNCHANGED <<args, scenario_log, other, seller, round_num, seller_price, seller_msg, result>>

\* Later rounds: the buyer responds to the seller's last offer.
BuyerResponds ==
    /\ pc = "buyer"
    /\ round_num > 0
    /\ \E r \in respond_to_seller_offer(buyer_agent, context, seller_price) :
           /\ BuyerReturned(r, IF r.raised THEN NoStatus ELSE r.status)
           /\ calls' = Append(calls, [method |-> "respond_to_seller_offer", context |-> context,
                                       seller_price |-> seller_price, offer |-> ReturnedOffer(r)])
    /\ UNCHANGED <<args, scenario_log, agent_fields, other, seller, round_num, seller_price, seller_msg, result>>

(* Faulty variants of the seller branch: the deal closes at the seller's   *)
(* last recorded offer ("seller_price"), the accepted price is recorded in *)
(* seller_offers ("records_accepted"), the acceptance message is not       *)
(* recorded ("silent_accept"), the loop runs one round more                *)
(* ("one_more_round"), or the seller is handed the 1-based round number    *)
(* ("one_based").                                                          *)
SellerRespondsVariant(fault) ==
    /\ pc = "seller"
    /\ LET passed == round_num + (IF fault = "one_based" THEN 1 ELSE 0)
           r == respond_to_buyer(seller, buyer_offer, passed)
           limit == RoundLimit(driver, MAX_ROUNDS) + (IF fault = "one_more_round" THEN 1 ELSE 0)
       IN  /\ seller_price' = r.price
           /\ calls' = Append(calls, [method |-> "respond_to_buyer", context |-> context,
                                       buyer_offer |-> buyer_offer, round_num |-> passed])
           /\ seller_msg' = r.message
           /\ IF r.accepted
              THEN /\ deal_made' = TRUE
                   /\ final_price' = Some(IF fault = "seller_price"
                                          THEN Last(context.seller_offers) ELSE buyer_offer)
                   /\ context' = [context EXCEPT
                          !.seller_offers = IF fault = "records_accepted"
                                            THEN Append(@, r.price) ELSE @,
                          !.messages = IF fault = "silent_accept" THEN @
                                       ELSE Append(@, [role |-> "seller", message |-> r.message])]
                   /\ pc' = "result"
                   /\ UNCHANGED round_num
              ELSE /\ context' = [context EXCEPT
                          !.seller_offers = Append(@, r.price),
                          !.messages = Append(@, [role |-> "seller", message |-> r.message])]
                   /\ IF round_num + 1 < limit
                      THEN pc' = "round" /\ round_num' = round_num + 1
                      ELSE pc' = "result" /\ UNCHANGED round_num
                   /\ UNCHANGED <<deal_made, final_price>>
    /\ UNCHANGED <<args, scenario_log, agent_fields, other, seller, buyer_offer, status, result>>

SellerResponds_ClosesAtSellerPrice == SellerRespondsVariant("seller_price")

SellerResponds_RecordsAccepted == SellerRespondsVariant("records_accepted")

SellerResponds_SilentAccept == SellerRespondsVariant("silent_accept")

SellerResponds_OneMoreRound == SellerRespondsVariant("one_more_round")

SellerResponds_OneBasedRound == SellerRespondsVariant("one_based")

\* The seller responds to the buyer's offer; the loop goes on or ends.
SellerResponds ==
    /\ pc = "seller"
    /\ LET r == respond_to_buyer(seller, buyer_offer, round_num)
       IN  /\ seller_price' = r.price
           /\ seller_msg' = r.message
           /\ IF r.accepted
              THEN /\ deal_made' = TRUE
                   /\ final_price' = Some(buyer_offer)
                   /\ context' = [context EXCEPT
                          !.messages = Append(@, [role |-> "seller", message |-> r.message])]
                   /\ pc' = "result"
                   /\ UNCHANGED round_num
              ELSE /\ context' = [context EXCEPT
                          !.seller_offers = Append(@, r.price),
                          !.messages = Append(@, [role |-> "seller", message |-> r.message])]
                   /\ IF round_num + 1 < RoundLimit(driver, MAX_ROUNDS)
                      THEN pc' = "round" /\ round_num' = round_num + 1
                      ELSE pc' = "result" /\ UNCHANGED round_num
                   /\ UNCHANGED <<deal_made, final_price>>
    /\ calls' = Append(calls, [method |-> "respond_to_buyer", context |-> context,
                                buyer_offer |-> buyer_offer, round_num |-> round_num])
    /\ UNCHANGED <<args, scenario_log, agent_fields, other, seller, buyer_offer, status, result>>

(* A percentage (a / b * 100) is kept as the fraction it rounds: rounding  *)
(* keeps its sign and whether it is zero.                                  *)
Pct(a, b) == [num |-> 100 * a, den |-> b]

PctZero == [num |-> 0, den |-> 1]

\* Faulty variant: savings are measured from the market price.
Return_SavingsFromMarket ==
    /\ pc = "result"
    /\ IF deal_made /\ (buyer_budget = 0 \/ product.base_market_price = 0)
       THEN pc' = "raised" /\ UNCHANGED result
       ELSE /\ result' =
                 [deal_made |-> deal_made,
                  final_price |-> final_price,
                  rounds |-> context.current_round,
                  savings |-> IF deal_made
                              THEN product.base_market_price - ValueOf(final_price) ELSE 0,
                  savings_pct |-> IF deal_made
                                  THEN Pct(buyer_budget - ValueOf(final_price), buyer_budget)
                                  ELSE PctZero,
                  below_market_pct |-> IF deal_made
                                       THEN Pct(product.base_market_price - ValueOf(final_price),
                                                product.base_market_price)
                                       ELSE PctZero,
                  conversation |-> context.messages]
            /\ pc' = "returned"
    /\ UNCHANGED <<args, scenario_log, agent_fields, other, seller, context, round_num, seller_price, seller_msg,
                   buyer_offer, status, deal_made, final_price, calls>>

\* The result dict is built and returned; a percentage may divide by zero.
Return ==
    /\ pc = "result"
    /\ IF deal_made /\ (buyer_budget = 0 \/ product.base_market_price = 0)
       THEN pc' = "raised" /\ UNCHANGED result
       ELSE /\ result' =
                 [deal_made |-> deal_made,
                  final_price |-> final_price,
                  rounds |-> context.current_round,
                  savings |-> IF deal_made THEN buyer_budget - ValueOf(final_price) ELSE 0,
                  savings_pct |-> IF deal_made
                                  THEN Pct(buyer_budget - ValueOf(final_price), buyer_budget)
                                  ELSE PctZero,
                  below_market_pct |-> IF deal_made
                                       THEN Pct(product.base_market_price - ValueOf(final_price),
                                                product.base_market_price)
                                       ELSE PctZero,
                  conversation |-> context.messages]
            /\ pc' = "returned"
    /\ UNCHANGED <<args, scenario_log, agent_fields, other, seller, context, round_num, seller_price, seller_msg,
                   buyer_offer, status, deal_made, final_price, calls>>

Next ==
    \/ SellerConstructorRaises
    \/ SellerOpens
    \/ StartRound
    \/ BuyerOpens
    \/ BuyerResponds
    \/ SellerResponds
    \/ Return

----------------------------------------------------------------------------
(* The calls that are checked                                              *)

\* Market prices: those of the two test products, and smaller ones.
MarketList == <<1000, 180000, 150000, 20000, 100>>

NumMarkets == 3

Markets == {MarketList[i] : i \in 1..Min(NumMarkets, Len(MarketList))}

\* Budgets and seller minimums: the three presets of the market price, crossed,
\* and values at half, nine tenths and twice the price.
Budgets(m) ==
    LET t == scenario_triplets(m)
    IN  {t.easy.buyer_budget, t.medium.buyer_budget, t.hard.buyer_budget, m \div 2, 2 * m}

SellerMins(m) ==
    LET t == scenario_triplets(m)
    IN  {t.easy.seller_min, t.medium.seller_min, t.hard.seller_min, (9 * m) \div 10}

\* Grade, origin and quantity: the two test products and two more.
ProductKinds == {<<"A", "Ratnagiri", 100>>, <<"B", "Gujarat", 150>>,
                 <<"Export", "Devgad", 100>>, <<"C", "Kerala", 150>>}

Products(b, m) ==
    {Product(k[1], k[2], k[3], m) :
        k \in IF b = "YourBuyerAgent" THEN ProductKinds ELSE {<<"A", "Ratnagiri", 100>>}}

Init ==
    \E max_rounds \in ConfiguredRounds, d \in {"template", "main"},
       b \in BuyerClasses, m \in Markets :
        \E p \in Products(b, m),
           budget \in IF b \in ReferenceBuyers THEN Budgets(m)
                      ELSE {scenario_triplets(m).easy.buyer_budget},
           smin \in IF b \in ReferenceBuyers THEN SellerMins(m)
                    ELSE {scenario_triplets(m).easy.seller_min} :
            Call(max_rounds, d, b, p, budget, smin)

Spec == Init /\ [][Next]_vars

(* The calls under which termination is checked: every driver, buyer and *)
(* configured MAX_ROUNDS, on a small and a large market price with the     *)
(* easy and hard budgets and the easy and nine-tenths seller minimums.     *)
FairMarkets == {MarketList[1], MarketList[2]}

FairInit ==
    \E max_rounds \in ConfiguredRounds, d \in {"template", "main"},
       b \in BuyerClasses, m \in FairMarkets :
        \E budget \in IF b \in ReferenceBuyers
                      THEN {scenario_triplets(m).easy.buyer_budget,
                            scenario_triplets(m).hard.buyer_budget}
                      ELSE {scenario_triplets(m).easy.buyer_budget},
           smin \in IF b \in ReferenceBuyers
                    THEN {scenario_triplets(m).easy.seller_min, (9 * m) \div 10}
                    ELSE {scenario_triplets(m).easy.seller_min} :
            Call(max_rounds, d, b, Product("A", "Ratnagiri", 100, m), budget, smin)

\* A sequential program always takes its next step.
FairSpec == FairInit /\ [][Next]_vars /\ WF_vars(Next)

(* The calls with a zero budget or a zero market price, next to calls     *)
(* with positive ones: every driver and buyer, seller minimum 0 or (for   *)
(* the reference buyers) the easy preset of the positive market price.     *)
ZeroInit ==
    \E max_rounds \in ConfiguredRounds, d \in {"template", "main"},
       b \in BuyerClasses, m \in {0, MarketList[1]} :
        \E budget \in {0, scenario_triplets(MarketList[1]).easy.buyer_budget},
           smin \in IF b \in ReferenceBuyers
                    THEN {0, scenario_triplets(MarketList[1]).easy.seller_min}
                    ELSE {0} :
            Call(max_rounds, d, b, Product("A", "Ratnagiri", 100, m), budget, smin)

ZeroSpec == ZeroInit /\ [][Next]_vars

(* scenario_triplets is called, at any moment of a negotiation, on a       *)
(* market price: one of the test products', a small one and one between.   *)
ScenarioPrices == {MarketList[1], MarketList[2], 150}

MaxScenarioCalls == 2

\* A variant whose return depends on the calls made before it.
ScenarioTripletsCall_Stateful ==
    /\ Len(scenario_log) < MaxScenarioCalls
    /\ \E market_price \in ScenarioPrices :
           scenario_log' = Append(scenario_log,
               [market_price |-> market_price, after |-> Len(calls),
                returned |-> scenario_triplets(market_price + Len(scenario_log))])
    /\ UNCHANGED <<args, agent_fields, other, seller, context, round_num, seller_price,
                   seller_msg, buyer_offer, status, deal_made, final_price, result, calls, pc>>

\* Each entry records the argument, the return and how many capability
\* calls the negotiation had made when scenario_triplets was called.
ScenarioTripletsCall ==
    /\ Len(scenario_log) < MaxScenarioCalls
    /\ \E market_price \in ScenarioPrices :
           scenario_log' = Append(scenario_log,
               [market_price |-> market_price, after |-> Len(calls),
                returned |-> scenario_triplets(market_price)])
    /\ UNCHANGED <<args, agent_fields, other, seller, context, round_num, seller_price,
                   seller_msg, buyer_offer, status, deal_made, final_price, result, calls, pc>>

\* The calls under which the scenario generator is checked: both drivers
\* and both reference buyers on the first market price's easy preset.
ScenarioInit ==
    \E max_rounds \in ConfiguredRounds, d \in {"template", "main"}, b \in ReferenceBuyers :
        LET m == MarketList[1]
        IN  Call(max_rounds, d, b, Product("A", "Ratnagiri", 100, m),
                 scenario_triplets(m).easy.buyer_budget, scenario_triplets(m).easy.seller_min)

ScenarioNext == Next \/ ScenarioTripletsCall

ScenarioSpec == ScenarioInit /\ [][ScenarioNext]_vars

(* Two negotiations with one buyer_agent instance.  Each call of           *)
(* run_negotiation_test has its own locals, context and seller; the one    *)
(* not running is kept in other, and Switch hands the processor over.  The *)
(* negotiations are numbered 1 and 2; the first to run is 1.               *)
Running == IF other = None THEN 1 ELSE 3 - ValueOf(other).id

Snapshot ==
    [id |-> Running, driver |-> driver, product |-> product, buyer_budget |-> buyer_budget,
     seller_min |-> seller_min, seller |-> seller, context |-> context,
     round_num |-> round_num, seller_price |-> seller_price, seller_msg |-> seller_msg,
     buyer_offer |-> buyer_offer, status |-> status, deal_made |-> deal_made,
     final_price |-> final_price, result |-> result, calls |-> calls, pc |-> pc]

\* The locals of a call of run_negotiation_test that has not taken a step.
StartRecord(d, p, budget, smin) ==
    [id |-> 2, driver |-> d, product |-> p, buyer_budget |-> budget, seller_min |-> smin,
     seller |-> Unbound, context |-> NegotiationContext(p, budget), round_num |-> 0,
     seller_price |-> NoPrice, seller_msg |-> Unbound, buyer_offer |-> NoPrice,
     status |-> NoStatus, deal_made |-> FALSE, final_price |-> None, result |-> Unbound,
     calls |-> <<>>, pc |-> "start"]

Switch ==
    /\ other # None
    /\ other' = Some(Snapshot)
    /\ LET o == ValueOf(other)
       IN  /\ driver' = o.driver
           /\ product' = o.product
           /\ buyer_budget' = o.buyer_budget
           /\ seller_min' = o.seller_min
           /\ seller' = o.seller
           /\ context' = o.context
           /\ round_num' = o.round_num
           /\ seller_price' = o.seller_price
           /\ seller_msg' = o.seller_msg
           /\ buyer_offer' = o.buyer_offer
           /\ status' = o.status
           /\ deal_made' = o.deal_made
           /\ final_price' = o.final_price
           /\ result' = o.result
           /\ calls' = o.calls
           /\ pc' = o.pc
    /\ UNCHANGED <<MAX_ROUNDS, buyer_agent, agent_fields, scenario_log>>

\* The scenarios the two negotiations are drawn from: the easy and the hard
\* preset of the first test product, and the easy budget against a seller
\* minimum of nine tenths of the market price.
PairScenarios ==
    LET m == MarketList[2]
        t == scenario_triplets(m)
    IN  {<<m, t.easy.buyer_budget, t.easy.seller_min>>,
         <<m, t.hard.buyer_budget, t.hard.seller_min>>,
         <<m, t.easy.buyer_budget, (9 * m) \div 10>>}

PairInit ==
    \E max_rounds \in ConfiguredRounds, d1 \in {"template", "main"}, d2 \in {"template", "main"},
       s1 \in PairScenarios, s2 \in PairScenarios :
        /\ NegotiationStart(max_rounds, d1, "YourBuyerAgent",
                            Product("A", "Ratnagiri", 100, s1[1]), s1[2], s1[3])
        /\ other = Some(StartRecord(d2, Product("A", "Ratnagiri", 100, s2[1]), s2[2], s2[3]))

PairNext == Next \/ Switch

PairSpec == PairInit /\ [][PairNext]_vars

(* Calls against a seller whose minimum is above the market price: the     *)
(* first test product, the easy budget and twice the market price, seller  *)
(* minimums of 110% and 130% of the market price.                          *)
HighMinInit ==
    \E max_rounds \in ConfiguredRounds, d \in {"template", "main"} :
        LET m == MarketList[2]
        IN  \E budget \in {scenario_triplets(m).easy.buyer_budget, 2 * m},
               smin \in {(11 * m) \div 10, (13 * m) \div 10} :
                Call(max_rounds, d, "YourBuyerAgent", Product("A", "Ratnagiri", 100, m),
                     budget, smin)

HighMinSpec == HighMinInit /\ [][Next]_vars

(* YourBuyerAgent.calculate_fair_price.  The method is called by neither   *)
(* driver; a caller holding the agent may call it at any time.  Its bulk   *)
(* adjustment is the local quantity_adj, chosen by an if / elif chain       *)
(* whose tests are tried in the order written.                             *)
quantity_adj(quantity) ==
    IF quantity >= 200 THEN F0_95
    ELSE IF quantity >= 500 THEN F0_9
    ELSE F1_0

\* The calculate_fair_price calls that are followed: at most this many a run.
MaxFairPriceCalls == 1

\* Product quantities on both sides of the two thresholds of the chain.
BulkQuantities == {100, 199, 200, 499, 500, 1000}

(* A call of calculate_fair_price(product) on the negotiation's product.   *)
(* The method reads the product and changes no field of the agent; the call *)
(* is logged with the factors of the returned price, which is               *)
(* int(base_fair_price * quality_adj * origin_adj * quantity_adj).          *)
CalculateFairPrice ==
    /\ buyer_agent = "YourBuyerAgent"
    /\ Cardinality({i \in DOMAIN calls : calls[i].method = "calculate_fair_price"})
           < MaxFairPriceCalls
    /\ calls' = Append(calls,
           [method |-> "calculate_fair_price", context |-> context, product |-> product,
            base_fair_price |-> product.base_market_price,
            quality_adj |-> get_quality_multiplier(product.quality_grade),
            origin_adj |-> get_origin_premium(product.origin),
            quantity_adj |-> quantity_adj(product.quantity)])
    /\ UNCHANGED <<args, scenario_log, agent_fields, other, seller, context, round_num,
                   seller_price, seller_msg, buyer_offer, status, deal_made, final_price,
                   result, pc>>

\* The calls under which calculate_fair_price is checked: both drivers and
\* every product kind, in each quantity, on the first market price's easy preset.
FairPriceInit ==
    \E max_rounds \in ConfiguredRounds, d \in {"template", "main"},
       k \in ProductKinds, quantity \in BulkQuantities :
        LET m == MarketList[1]
        IN  Call(max_rounds, d, "YourBuyerAgent", Product(k[1], k[2], quantity, m),
                 scenario_triplets(m).easy.buyer_budget, scenario_triplets(m).easy.seller_min)

FairPriceNext == Next \/ CalculateFairPrice

FairPriceSpec == FairPriceInit /\ [][FairPriceNext]_vars

----------------------------------------------------------------------------
(* Properties                                                              *)

\* The loop has ended: the negotiation is closed.
Closed == pc \in {"result", "returned"}

\* The buyer's last return carried ACCEPTED.
BuyerAccepted == status = "ACCEPTED"

\* The seller's last response was an acceptance.
SellerAccepted == Closed /\ seller_msg.text = "deal"

RefRun == buyer_agent \in ReferenceBuyers

(* C1. Budget invariant: in a run with a reference buyer against the       *)
(* reference seller, with positive market price, budget and seller         *)
(* minimum, a deal is never closed above the budget: deal_made implies     *)
(* final_price <= buyer_budget, in the driver's locals and in the result   *)
(* it returns, whichever side accepted.                                    *)
C1_BudgetInvariant ==
    /\ (RefRun /\ deal_made) =>
           (final_price # None /\ ValueOf(final_price) <= buyer_budget)
    /\ (RefRun /\ pc = "returned" /\ result.deal_made) =>
           (result.final_price # None /\ ValueOf(result.final_price) <= buyer_budget)

\* A reference buyer's deal is returned at exactly the budget, the seller
\* having accepted an offer that the budget capped.
C1_DealAtBudget ==
    /\ RefRun /\ pc = "returned" /\ result.deal_made
    /\ SellerAccepted
    /\ result.final_price = Some(buyer_budget)

(* C2. Buyer-acceptance asymmetry: when the buyer's respond_to_seller_offer *)
(* returns ACCEPTED, the deal is closed at the last element of             *)
(* context.seller_offers, whatever number the buyer returned with it,      *)
(* and that is the final_price of the returned result.                     *)
C2_BuyerAcceptanceClosesAtSellerOffer ==
    /\ BuyerAccepted =>
           (deal_made /\ final_price = Some(Last(context.seller_offers)))
    /\ (BuyerAccepted /\ pc = "returned") =>
           (result.deal_made /\ result.final_price = Some(Last(context.seller_offers)))

\* A buyer returned ACCEPTED with a number that is not the seller's offer,
\* and the result carries the seller's offer.
C2_AcceptedWithAnotherNumber ==
    /\ BuyerAccepted /\ pc = "returned"
    /\ buyer_offer # Last(context.seller_offers)
    /\ result.final_price = Some(Last(context.seller_offers))

(* C3. Seller-acceptance asymmetry: when the seller's respond_to_buyer     *)
(* returns accepted = True, the deal is closed at the buyer offer of that  *)
(* round, the last element of context.your_offers, and that is the         *)
(* final_price of the returned result.                                     *)
C3_SellerAcceptanceClosesAtBuyerOffer ==
    /\ SellerAccepted =>
           (deal_made /\ final_price = Some(Last(context.your_offers))
                      /\ final_price = Some(buyer_offer))
    /\ (SellerAccepted /\ pc = "returned") =>
           (result.deal_made /\ result.final_price = Some(Last(context.your_offers)))

\* The seller accepted an offer of round 2 or later that differs from its
\* own last recorded offer, and the result carries the buyer's offer.
C3_SellerAcceptedLaterOffer ==
    /\ SellerAccepted /\ pc = "returned"
    /\ context.current_round >= 2
    /\ Last(context.your_offers) # Last(context.seller_offers)
    /\ result.final_price = Some(Last(context.your_offers))

\* The round limit of the running driver.
Limit == RoundLimit(driver, MAX_ROUNDS)

BuyerMoves == Len(context.your_offers)

\* The seller's responses: its transcript entries after the opening one.
SellerResponses ==
    Cardinality({i \in 2..Len(context.messages) : context.messages[i].role = "seller"})

\* Neither acceptance branch has fired.
NoAcceptance ==
    /\ ~BuyerAccepted
    /\ \A i \in DOMAIN context.messages :
           context.messages[i].role = "seller" => context.messages[i].message.text # "deal"

\* The loop ran through all its rounds, each with a buyer move and a
\* seller response that was recorded.
LoopExhausted(limit) ==
    /\ Closed /\ NoAcceptance
    /\ round_num = limit - 1
    /\ BuyerMoves = limit
    /\ Len(context.seller_offers) = limit + 1

TerminationCore ==
    /\ (pc = "round") ~> (Closed \/ pc = "raised")
    /\ [](Closed => /\ ~deal_made <=> NoAcceptance
                    /\ ~deal_made <=> final_price = None)
    /\ [][Closed => UNCHANGED <<context, deal_made, final_price>>]_vars

Alternates ==
    \A i \in DOMAIN context.messages :
        context.messages[i].role = IF i % 2 = 1 THEN "seller" ELSE "buyer"

\* The transcript's length at the end, in round r.
ClosedLength(timeout_rounds) ==
    LET r == context.current_round
    IN  Closed => Len(context.messages) = CASE BuyerAccepted  -> 2 * r
                                            [] SellerAccepted -> 2 * r + 1
                                            [] OTHER          -> 2 * timeout_rounds + 1

HistoryGap == Len(context.seller_offers) - Len(context.your_offers)

\* The last thing that happened is a seller turn that did not accept.
SellerTurnJustDone ==
    /\ context.messages # <<>>
    /\ Last(context.messages).role = "seller"
    /\ Last(context.messages).message.text # "deal"

(* C8. History lengths: in every state len(seller_offers) -                *)
(* len(your_offers) is 0 or 1; it is 1 exactly when the last thing         *)
(* recorded is a seller turn without acceptance (the opening included),    *)
(* and 0 after a buyer move and after a seller acceptance, whose price is  *)
(* not appended to seller_offers.                                          *)
C8_HistoryLengths ==
    /\ HistoryGap \in {0, 1}
    /\ HistoryGap = 1 <=> SellerTurnJustDone
    /\ pc \in {"round", "buyer"} => HistoryGap = 1
    /\ pc = "seller" => HistoryGap = 0
    /\ BuyerAccepted => HistoryGap = 0
    /\ SellerAccepted => (HistoryGap = 0 /\ Len(context.seller_offers) = context.current_round)

\* The seller accepted after several rounds, and the accepted price is not
\* the last element of seller_offers.
C8_AcceptedPriceNotRecorded ==
    /\ SellerAccepted /\ HistoryGap = 0
    /\ Len(context.seller_offers) >= 2
    /\ Last(context.seller_offers) # seller_price

\* Every element of your_offers is within the budget.
WithinBudget == \A i \in DOMAIN context.your_offers : context.your_offers[i] <= context.your_budget

(* C9. Buyer offers never exceed the budget: with a reference buyer, every *)
(* element appended to context.your_offers (the opening offer, every       *)
(* counter-offer, the price returned with ACCEPTED) is <= your_budget.     *)
C9_OffersWithinBudget ==
    RefRun => (context.your_budget = buyer_budget /\ WithinBudget)

\* YourBuyerAgent's computed counter-offer was above the budget and the
\* offer recorded is the budget.
C9_CounterCappedAtBudget ==
    /\ buyer_agent = "YourBuyerAgent" /\ pc = "seller" /\ status = "ONGOING"
    /\ Len(context.your_offers) >= 2
    /\ buyer_offer = context.your_budget
    /\ LET before == [context EXCEPT !.your_offers = SubSeq(@, 1, Len(@) - 1)]
       IN  calculate_counter_offer(Last(context.seller_offers), before,
                                   analyze_negotiation_phase(before)) > context.your_budget

(* C10. Offers are non-negative: with a reference buyer against the        *)
(* reference seller and positive market price, budget and seller minimum,  *)
(* every element of context.seller_offers and of context.your_offers is    *)
(* >= 0 in every state.                                                    *)
C10_OffersNonNegative ==
    RefRun => /\ \A i \in DOMAIN context.seller_offers : context.seller_offers[i] >= 0
              /\ \A i \in DOMAIN context.your_offers : context.your_offers[i] >= 0

\* A percentage whose divisor is zero: savings_pct with a zero budget,
\* below_market_pct with a zero market price.
ZeroDivisor == buyer_budget = 0 \/ product.base_market_price = 0

(* C11. Division-by-zero guard: when buyer_budget is 0 or the product's    *)
(* base_market_price is 0, a run of the template's driver never ends in    *)
(* an error, and the result it returns reports the percentage whose        *)
(* divisor is 0 as 0, a deal at price 0 included.                          *)
C11_ZeroDivisorEndsNormally ==
    (driver = "template" /\ ZeroDivisor) =>
        /\ pc # "raised"
        /\ pc = "returned" =>
               /\ buyer_budget = 0 => result.savings_pct.num = 0
               /\ product.base_market_price = 0 => result.below_market_pct.num = 0

\* The calls of a method, as indices of the call log.
CallsOf(method) == {i \in DOMAIN calls : calls[i].method = method}

\* The calls of a method made in round r (context.current_round = r).
CallsIn(method, r) == {i \in CallsOf(method) : calls[i].context.current_round = r}

\* The buyer has not moved yet in the current round.
BuyerToMove == pc = "buyer"

(* C12. Buyer call ordering: generate_opening_offer is called once, in     *)
(* round 1 after the seller's opening price has been recorded, and round   *)
(* 1's status is ONGOING, so the buyer never closes the deal in round 1;   *)
(* in every later round that is reached respond_to_seller_offer is called  *)
(* exactly once, generate_opening_offer never, with seller_price the last  *)
(* element of context.seller_offers.                                       *)
C12_BuyerCallOrdering ==
    /\ \A i \in CallsOf("generate_opening_offer") :
           /\ calls[i].context.current_round = 1
           /\ Len(calls[i].context.seller_offers) = 1
           /\ calls[i].context.your_offers = <<>>
    /\ Cardinality(CallsOf("generate_opening_offer")) =
           IF context.current_round = 0 \/ (context.current_round = 1 /\ BuyerToMove)
           THEN 0 ELSE 1
    /\ (context.current_round = 1 /\ status # NoStatus) => status = "ONGOING"
    /\ BuyerAccepted => context.current_round >= 2
    /\ CallsIn("respond_to_seller_offer", 1) = {}
    /\ \A r \in 2..context.current_round :
           Cardinality(CallsIn("respond_to_seller_offer", r)) =
               IF r = context.current_round /\ BuyerToMove THEN 0 ELSE 1
    /\ \A i \in CallsOf("respond_to_seller_offer") :
           /\ calls[i].seller_price = Last(calls[i].context.seller_offers)
           /\ Len(calls[i].context.seller_offers) = calls[i].context.current_round

\* A negotiation closed in round 3 or later: one opening call, and a
\* response call in each of the rounds 2 and 3 with a seller_price that is
\* not the opening price.
C12_OpeningThenResponses ==
    /\ Closed /\ context.current_round >= 3
    /\ Cardinality(CallsOf("generate_opening_offer")) = 1
    /\ Cardinality(CallsOf("respond_to_seller_offer")) = context.current_round - 1
    /\ \E i \in CallsIn("respond_to_seller_offer", 3) :
           calls[i].seller_price # context.seller_offers[1]

\* The transcript entries written by the seller's near-timeout branch
\* (round_num >= 8); the seller's response of round r is entry 2r + 1.
NearTimeoutEntries ==
    {k \in DOMAIN context.messages :
        /\ context.messages[k].role = "seller"
        /\ context.messages[k].message.text = "final offer"}

(* C13. Zero-based seller round number: at every call of the seller's      *)
(* respond_to_buyer the round_num argument is context.current_round - 1    *)
(* and the buyer_offer argument is the last element of                     *)
(* context.your_offers; so the seller's near-timeout branch                *)
(* (round_num >= 8) is taken only in rounds 9 and later.                   *)
C13_ZeroBasedSellerRound ==
    /\ \A i \in CallsOf("respond_to_buyer") :
           /\ calls[i].round_num = calls[i].context.current_round - 1
           /\ calls[i].buyer_offer = Last(calls[i].context.your_offers)
    /\ \A k \in NearTimeoutEntries : (k - 1) \div 2 >= 9

\* The seller was called with round_num = 8 in round 9 and took its
\* near-timeout branch.
C13_NearTimeoutInRoundNine ==
    /\ \E i \in CallsOf("respond_to_buyer") :
           calls[i].round_num = 8 /\ calls[i].context.current_round = 9
    /\ 19 \in NearTimeoutEntries
    /\ 17 \notin NearTimeoutEntries

(* C14. REJECTED is a walk-away: once the buyer's respond_to_seller_offer  *)
(* has returned REJECTED the negotiation is closed without a deal, and the *)
(* seller's respond_to_buyer is not called again.                          *)
C14_RejectedEndsNegotiation ==
    status = "REJECTED" =>
        /\ Closed /\ ~deal_made
        /\ \A i \in CallsOf("respond_to_buyer") :
               calls[i].context.current_round < context.current_round

(* The log holds the seller's opening call, then for each round the       *)
(* buyer's call (entry 2k for round k) and the seller's (entry 2k + 1).    *)
BuyerCall(k) == calls[2 * k]

\* The buyer returned an offer above the budget and the seller accepted it.
OverBudgetAccepted ==
    /\ SellerAccepted
    /\ ValueOf(BuyerCall(context.current_round).offer) > context.your_budget

(* C15. The driver neither clamps nor rejects buyer offers: for any buyer *)
(* and any offer it returns, above the budget included, the value          *)
(* appended to context.your_offers and the buyer_offer handed to the       *)
(* seller's respond_to_buyer are the value returned, and if the seller     *)
(* accepts it the run ends normally with deal_made and final_price equal   *)
(* to that value.                                                          *)
C15_OffersPassThrough ==
    /\ \A k \in DOMAIN context.your_offers :
           Some(context.your_offers[k]) = BuyerCall(k).offer
    /\ \A i \in CallsOf("respond_to_buyer") :
           Some(calls[i].buyer_offer) = calls[i - 1].offer
    /\ SellerAccepted =>
           /\ deal_made
           /\ final_price = BuyerCall(context.current_round).offer
           /\ pc = "returned" =>
                  /\ result.deal_made
                  /\ result.final_price = final_price
    /\ pc = "raised" => ~deal_made

\* An offer above the budget was accepted and the result is returned with it.
C15_OverBudgetDeal ==
    /\ OverBudgetAccepted /\ pc = "returned"
    /\ ValueOf(result.final_price) = buyer_budget + 1
    /\ Last(context.your_offers) = buyer_budget + 1

\* floor(n * m / d) for the presets' ratios, in exact arithmetic.
Floor(n, d, m) == (n * m) \div d

\* The presets C16 states for market price m.
StatedPresets(m) ==
    [easy   |-> [buyer_budget |-> Floor(120, 100, m), seller_min |-> Floor(80, 100, m)],
     medium |-> [buyer_budget |-> m,                  seller_min |-> Floor(85, 100, m)],
     hard   |-> [buyer_budget |-> Floor(90, 100, m),  seller_min |-> Floor(82, 100, m)]]

(* C16. Scenario presets: for every market price m it is called on,        *)
(* scenario_triplets(m) returns exactly the presets easy, medium and hard  *)
(* with (buyer_budget, seller_min) = (floor(1.20 m), floor(0.80 m)),       *)
(* (m, floor(0.85 m)) and (floor(0.90 m), floor(0.82 m)); for 180000 these *)
(* are (216000, 144000), (180000, 153000), (162000, 147600); and the       *)
(* template's inline derivation gives the same pairs.                      *)
C16_ScenarioPresets ==
    /\ \A i \in DOMAIN scenario_log :
           LET m == scenario_log[i].market_price
               t == scenario_log[i].returned
           IN  /\ DOMAIN t = {"easy", "medium", "hard"}
               /\ t = StatedPresets(m)
               /\ \A s \in DOMAIN t : Template_scenario(m, s) = t[s]
    /\ StatedPresets(180000) =
           [easy   |-> [buyer_budget |-> 216000, seller_min |-> 144000],
            medium |-> [buyer_budget |-> 180000, seller_min |-> 153000],
            hard   |-> [buyer_budget |-> 162000, seller_min |-> 147600]]

\* Everything but the log of scenario_triplets calls.
NegotiationState ==
    <<args, agent_fields, other, seller, context, round_num, seller_price, seller_msg, buyer_offer,
      status, deal_made, final_price, result, calls, pc>>

EasyScenario ==
    /\ buyer_agent = "YourBuyerAgent"
    /\ product = Product("A", "Ratnagiri", 100, 180000)
    /\ buyer_budget = 216000
    /\ seller_min = 144000

\* What C18 expects of a returned result.
EasyScenarioResult ==
    /\ result.deal_made
    /\ result.rounds <= MAX_ROUNDS
    /\ result.rounds <= DEFAULT_MAX_ROUNDS
    /\ ValueOf(result.final_price) <= 216000
    /\ ValueOf(result.final_price) <= 180000
    /\ result.below_market_pct.num >= 0

(* C18. End-to-end easy scenario: the driver run with YourBuyerAgent       *)
(* against the standard reference seller on market price 180000 (grade A,  *)
(* Ratnagiri), budget 216000 and seller minimum 144000 ends, without       *)
(* raising, in a deal within MAX_ROUNDS (10) rounds at a final price of at *)
(* most 216000 and at most 180000.                                         *)
C18_EasyScenarioDeal ==
    EasyScenario => /\ pc # "raised"
                    /\ pc = "returned" => EasyScenarioResult

\* The part of the state C19 names: everything but the message texts.
PriceState ==
    <<deal_made, final_price, round_num, context.current_round, context.seller_offers,
      context.your_offers, seller_price, buyer_offer, status, pc>>

\* The PriceState the driver reaches when respond_to_seller_offer returns r.
PriceStateAfter(r) ==
    IF r.raised
    THEN <<deal_made, final_price, round_num, context.current_round, context.seller_offers,
           context.your_offers, seller_price, buyer_offer, status, "raised">>
    ELSE <<r.status = "ACCEPTED", IF r.status = "ACCEPTED" THEN Some(seller_price) ELSE final_price,
           round_num, context.current_round, context.seller_offers,
           Append(context.your_offers, r.offer), seller_price, r.offer, r.status,
           IF r.status = "ACCEPTED" THEN "result" ELSE "seller">>

(* C19. Randomness never influences prices: when a reference buyer         *)
(* responds, the step taken leaves deal_made, final_price, the round, both *)
(* offer histories and the next driver step as every other random choice   *)
(* of the acceptance message would have left them; runs that differ in     *)
(* those choices differ in message text only.                              *)
C19_RandomnessNeverInfluencesPrices ==
    [][(pc = "buyer" /\ round_num > 0 /\ buyer_agent \in ReferenceBuyers)
          => \A r \in respond_to_seller_offer(buyer_agent, context, seller_price) :
                 PriceState' = PriceStateAfter(r)]_vars

\* Witness for C19: YourBuyerAgent accepted with the third message drawn.
C19_AcceptedWithTheThirdMessage ==
    /\ buyer_agent = "YourBuyerAgent"
    /\ pc = "result"
    /\ deal_made
    /\ status = "ACCEPTED"
    /\ Last(context.messages).message.text = <<"accept", 3>>

(* What C20 compares: whether the call raised and, if it returned, the deal, *)
(* the price, the rounds and the two offer histories.                       *)
Outcome(raised, made, price, rounds, seller_offers, your_offers) ==
    IF raised
    THEN [raised |-> TRUE, deal_made |-> FALSE, final_price |-> None, rounds |-> 0,
          seller_offers |-> <<>>, your_offers |-> <<>>]
    ELSE [raised |-> FALSE, deal_made |-> made, final_price |-> price, rounds |-> rounds,
          seller_offers |-> seller_offers, your_offers |-> your_offers]

\* The outcome of a negotiation n (a Snapshot) that has ended.
OutcomeOf(n) ==
    IF n.pc = "raised"
    THEN Outcome(TRUE, FALSE, None, 0, <<>>, <<>>)
    ELSE Outcome(FALSE, n.result.deal_made, n.result.final_price, n.result.rounds,
                 n.context.seller_offers, n.context.your_offers)

(* The outcome of run_negotiation_test run alone, computed round by round   *)
(* from the capabilities: r is the loop variable, price the seller's last   *)
(* price.  The buyer's returns differ in message text only (C19), so any    *)
(* one of them stands for the call.                                         *)
RECURSIVE AloneFrom(_, _, _, _, _, _)
AloneFrom(b, sel, ctx, price, r, limit) ==
    IF r >= limit
    THEN Outcome(FALSE, FALSE, None, ctx.current_round, ctx.seller_offers, ctx.your_offers)
    ELSE LET c1  == [ctx EXCEPT !.current_round = r + 1]
             ret == IF r = 0
                    THEN LET o == CHOOSE x \in generate_opening_offer(b, c1) : TRUE
                         IN  IF o.raised THEN o
                             ELSE [raised |-> FALSE, status |-> "ONGOING", offer |-> o.offer]
                    ELSE CHOOSE x \in respond_to_seller_offer(b, c1, price) : TRUE
         IN  IF ret.raised
             THEN Outcome(TRUE, FALSE, None, 0, <<>>, <<>>)
             ELSE LET c2 == [c1 EXCEPT !.your_offers = Append(@, ret.offer)]
                      sr == respond_to_buyer(sel, ret.offer, r)
                  IN  IF ret.status = "ACCEPTED"
                      THEN Outcome(FALSE, TRUE, Some(price), r + 1,
                                   c2.seller_offers, c2.your_offers)
                      ELSE IF sr.accepted
                      THEN Outcome(FALSE, TRUE, Some(ret.offer), r + 1,
                                   c2.seller_offers, c2.your_offers)
                      ELSE AloneFrom(b, sel,
                                     [c2 EXCEPT !.seller_offers = Append(@, sr.price)],
                                     sr.price, r + 1, limit)

Alone(max_rounds, b, n) ==
    LET sel == ConstructSeller(SellerClass(n.driver), n.seller_min)
    IN  IF sel.raised
        THEN Outcome(TRUE, FALSE, None, 0, <<>>, <<>>)
        ELSE LET o == get_opening_price(sel, n.product)
                 c == [NegotiationContext(n.product, n.buyer_budget)
                           EXCEPT !.seller_offers = <<o.price>>]
             IN  AloneFrom(b, sel, c, o.price, 0, RoundLimit(n.driver, max_rounds))

\* A negotiation that has ended has the outcome it has alone.
EndedAsAlone(n) ==
    n.pc \in {"returned", "raised"} => OutcomeOf(n) = Alone(MAX_ROUNDS, buyer_agent, n)

(* C20. Reentrancy of the reference strategies: with two negotiations      *)
(* sharing one YourBuyerAgent instance and their driver steps interleaved   *)
(* in any order, each negotiation that has ended has the deal_made,         *)
(* final_price, rounds and offer histories it has when run alone; no step   *)
(* changes a field of the agent instance, and the suspended negotiation     *)
(* (its context included) changes only by being resumed, as it was left.    *)
C20_Reentrancy ==
    /\ [](/\ EndedAsAlone(Snapshot)
          /\ other # None => EndedAsAlone(ValueOf(other)))
    /\ [][/\ agent_fields' = agent_fields
          /\ IF Running' = Running
             THEN other' = other
             ELSE other' = Some(Snapshot) /\ Some(Snapshot') = other]_vars

\* Witness for C20: both negotiations ended in a deal, against sellers
\* with different minimums and at different prices.
C20_BothEndedInterleaved ==
    /\ other # None
    /\ pc = "returned"
    /\ ValueOf(other).pc = "returned"
    /\ deal_made
    /\ ValueOf(other).deal_made
    /\ seller_min # ValueOf(other).seller_min
    /\ final_price # ValueOf(other).final_price

(* C21. Frame condition: no step of a negotiation changes a field of the   *)
(* product or the budget held in the context, which stay the arguments of  *)
(* the call; of the context only current_round, seller_offers, your_offers *)
(* and messages change.                                                    *)
C21_FrameCondition ==
    [][/\ product' = product
       /\ buyer_budget' = buyer_budget
       /\ context'.product = context.product
       /\ context'.your_budget = context.your_budget
       /\ context'.product = product
       /\ context'.your_budget = buyer_budget
       /\ DOMAIN context' = DOMAIN context]_vars

\* Witness for C21: a negotiation has returned after three rounds, with all
\* four changing fields changed and the product and budget as passed.
C21_ReturnedWithProductAndBudget ==
    /\ pc = "returned"
    /\ context.current_round >= 3
    /\ Len(context.seller_offers) >= 3
    /\ Len(context.your_offers) >= 3
    /\ Len(context.messages) >= 6
    /\ context.product = product
    /\ context.your_budget = buyer_budget

(* C22. StandardSeller matches MockSellerAgent: a StandardSeller created   *)
(* with the minimum price of the call is created as MockSellerAgent is,    *)
(* opens at the same price and returns the same (price, accepted) to the   *)
(* buyer's offer, so that the driver that uses it gets as far as the       *)
(* driver that uses MockSellerAgent.                                       *)
C22_StandardSellerMatchesMock ==
    LET standard == ConstructSeller("StandardSeller", seller_min)
        mock     == ConstructSeller("MockSellerAgent", seller_min)
    IN  pc # "start" =>
            /\ standard.raised = mock.raised
            /\ ~standard.raised =>
                   /\ Standard_get_opening_price(product).price
                          = Mock_get_opening_price(product).price
                   /\ pc = "seller" =>
                          LET s == Standard_respond_to_buyer(standard, buyer_offer, round_num)
                              m == Mock_respond_to_buyer(mock, buyer_offer, round_num)
                          IN  s.price = m.price /\ s.accepted = m.accepted
            /\ (driver = "main" /\ pc = "raised") => Len(context.seller_offers) > 0

(* C23. Final-phase acceptance: when YourBuyerAgent is to respond in the   *)
(* final phase (current_round >= 9) to a seller price within the budget,   *)
(* respond_to_seller_offer returns ACCEPTED.                               *)
C23_FinalPhaseAcceptsWithinBudget ==
    (/\ buyer_agent = "YourBuyerAgent"
     /\ pc = "buyer"
     /\ context.current_round >= 9
     /\ seller_price <= context.your_budget)
        => \A r \in respond_to_seller_offer(buyer_agent, context, seller_price) :
               ~r.raised /\ r.status = "ACCEPTED"

\* YourBuyerAgent has just returned an ONGOING counter-offer to a seller price.
CounterOffered ==
    /\ buyer_agent = "YourBuyerAgent"
    /\ pc = "seller"
    /\ Len(context.your_offers) >= 2

PreviousOffer == context.your_offers[Len(context.your_offers) - 1]

\* The previous offer plus max(5% of it, 5000).
MeaningfulIncrement == PreviousOffer + Max((5 * PreviousOffer) \div 100, 5000)

(* C24. Meaningful increment, up to the budget: every ONGOING              *)
(* counter-offer YourBuyerAgent returns is at least the smaller of the     *)
(* budget and the previous offer plus max(5% of the previous offer, 5000). *)
C24_MeaningfulIncrementUpToBudget ==
    CounterOffered => Last(context.your_offers) >= Min(MeaningfulIncrement, context.your_budget)

\* Witness for C24: a counter-offer that is the budget, below the increment.
C24_CounterOfferCappedBelowIncrement ==
    /\ CounterOffered
    /\ Last(context.your_offers) = context.your_budget
    /\ Last(context.your_offers) < MeaningfulIncrement
    /\ Last(context.your_offers) > PreviousOffer

(* C24 as stated: every ONGOING counter-offer is at least the previous     *)
(* offer plus max(5% of the previous offer, 5000).                         *)
C24_MeaningfulIncrement ==
    CounterOffered => Last(context.your_offers) >= MeaningfulIncrement

\* The response r of a seller with minimum price m keeps the floor.
Floored(r, m) == r.price >= m

(* C25. Seller price floor: every price a reference seller with minimum    *)
(* price m >= 0 returns from respond_to_buyer, accepting or not, is at     *)
(* least m; every seller offer after the opening one is at least m; and a  *)
(* deal's final price is at least m, whether the buyer or the seller       *)
(* accepted (the buyer never accepts the opening price).                   *)
C25_SellerPriceFloor ==
    seller_min >= 0 =>
        /\ pc = "seller" =>
               LET self == [min_price |-> seller_min]
               IN  /\ Floored(Mock_respond_to_buyer(self, buyer_offer, round_num), seller_min)
                   /\ Floored(Standard_respond_to_buyer(self, buyer_offer, round_num), seller_min)
                   /\ Floored(Tough_respond_to_buyer(self, buyer_offer, round_num), seller_min)
                   /\ Floored(Friendly_respond_to_buyer(self, buyer_offer, round_num), seller_min)
        /\ \A i \in 2..Len(context.seller_offers) : context.seller_offers[i] >= seller_min
        /\ deal_made => ValueOf(final_price) >= seller_min
        /\ (deal_made /\ BuyerAccepted) => Len(context.seller_offers) >= 2

\* Witness for C25: the buyer accepted a price that the floor had set.
C25_BuyerAcceptedTheFloor ==
    /\ pc = "returned"
    /\ deal_made
    /\ BuyerAccepted
    /\ seller_min > 0
    /\ ValueOf(final_price) = seller_min
    /\ Last(context.seller_offers) = seller_min

(* C26. Round counter invariant: current_round is 0 when the negotiation   *)
(* starts; a step leaves it unchanged or, at the start of a round, sets it *)
(* to the round's number, one more than before; in every state             *)
(* len(your_offers) is current_round - 1 or current_round; and the rounds  *)
(* value of a returned result is len(your_offers).                         *)
C26_RoundCounter ==
    /\ [](/\ pc = "start" => context.current_round = 0
          /\ Len(context.your_offers) \in {context.current_round - 1, context.current_round}
          /\ pc = "returned" => result.rounds = Len(context.your_offers))
    /\ [][\/ context'.current_round = context.current_round
          \/ /\ pc = "round"
             /\ context'.current_round = context.current_round + 1
             /\ context'.current_round = round_num + 1]_vars

\* Witness for C26: a timeout returned after the driver's ten rounds.
C26_TimeoutReportsTenRounds ==
    /\ pc = "returned"
    /\ ~result.deal_made
    /\ result.rounds = TEMPLATE_ROUNDS
    /\ Len(context.your_offers) = TEMPLATE_ROUNDS
    /\ context.current_round = TEMPLATE_ROUNDS

\* after is before, or before with one element appended.
AppendedAtMostOne(before, after) ==
    \/ after = before
    \/ /\ Len(after) = Len(before) + 1
       /\ SubSeq(after, 1, Len(before)) = before

NonDecreasing(seq) == \A i \in 1..(Len(seq) - 1) : seq[i] <= seq[i + 1]

(* C27. Append-only, non-decreasing buyer history: in a negotiation of     *)
(* YourBuyerAgent with positive market price, budget and seller minimum,   *)
(* each step leaves your_offers and seller_offers unchanged or appends one *)
(* element to them, and your_offers is non-decreasing.                     *)
C27_AppendOnlyNonDecreasing ==
    [][(/\ buyer_agent = "YourBuyerAgent"
        /\ product.base_market_price > 0 /\ buyer_budget > 0 /\ seller_min > 0)
          => /\ AppendedAtMostOne(context.your_offers, context'.your_offers)
             /\ AppendedAtMostOne(context.seller_offers, context'.seller_offers)
             /\ NonDecreasing(context'.your_offers)]_vars

\* Witness for C27: three buyer offers, each above the one before, the last
\* an accepted seller price.
C27_RisingOffersAccepted ==
    /\ buyer_agent = "YourBuyerAgent"
    /\ pc = "returned"
    /\ BuyerAccepted
    /\ Len(context.your_offers) >= 3
    /\ \A i \in 1..(Len(context.your_offers) - 1) :
           context.your_offers[i] < context.your_offers[i + 1]

(* C28: calculate_fair_price's quantity adjustment is 1.0 for a quantity   *)
(* below 200, 0.95 for a quantity from 200 up to 499 and 0.90 for a        *)
(* quantity of 500 or more.  The code tests quantity >= 200 first, so the   *)
(* 0.90 branch is never taken.                                             *)
FairPriceCalls == {i \in DOMAIN calls : calls[i].method = "calculate_fair_price"}

C28_BulkDiscount ==
    \A i \in FairPriceCalls :
        LET quantity == calls[i].product.quantity
        IN  /\ quantity < 200 => calls[i].quantity_adj = F1_0
            /\ (quantity >= 200 /\ quantity < 500) => calls[i].quantity_adj = F0_95
            /\ quantity >= 500 => calls[i].quantity_adj = F0_9

====
